---- MODULE Spec2Model ----
(***************************************************************************)
(* A model of the gossip graph (graph.rs), the content hash (hash.rs),     *)
(* the failure detector (failure_detector.rs) and the NodeMembership       *)
(* state machine (node_membership.rs).                                     *)
(*                                                                         *)
(* Modelling assumptions:                                                  *)
(*  - Sha3_256 is collision free: a digest stands for its preimage (the    *)
(*    "FIXME: handle hash collisions" of Graph::insert is not exercised).  *)
(*  - N (the NodeId type) is instantiated with small integers, one of     *)
(*    which has a Serialize implementation that reports an error.          *)
(*  - Option<T> is a sequence of length 0 (None) or 1 (Some).              *)
(***************************************************************************)
EXTENDS Integers, Sequences, FiniteSets, TLC

\* Bounds of the model.
MaxEvents == 3
MaxFailures == 2

\* Node identifiers (the type parameter N).
Nodes == {1, 2}
\* Values of N whose Serialize implementation reports an error.
Unserializable == {0}

VARIABLES
    events,     \* Graph.events: Vec<Event<N>>
    indices,    \* Graph.indices: BTreeMap<Hash, usize>
    failures,   \* the failure detector's queue of unhandled failures
    detector,   \* which implementation sits behind Box<dyn FailureDetector<N>>
    itState,    \* "idle" | "active" | "done": life of an AncestorIter (the
                \* iterator has no way to report a failure)
    start,      \* index of the event the AncestorIter was created from
    queue,      \* AncestorIter.queue: VecDeque<EventRef>, front at position 1
    yielded,    \* history: the items returned by AncestorIter::next, in order
    last,       \* history: the last operation called and what it returned
    lastGroup   \* history: the latest call of group, what it saw and returned

vars ==
    <<events, indices, failures, detector, itState, start, queue, yielded, last,
      lastGroup>>

----------------------------------------------------------------------------
\* Option<T>
None == <<>>
Some(x) == <<x>>

\* graph.rs: enum Action<N>
ActInit(S) == [tag |-> "Init", members |-> S]
ActAdd(n) == [tag |-> "Add", node |-> n]
ActRemove(n) == [tag |-> "Remove", node |-> n]

\* graph.rs: struct Event<N>
Event(c, sp, op, a) ==
    [creator_id |-> c, self_parent |-> sp, other_parent |-> op, action |-> a]

\* hash.rs: struct Hash(pub [u8; 32])
Hash(bytes) == [bytes |-> bytes]

----------------------------------------------------------------------------
\* Serialization (bincode::serialize over the derived Serialize impls).

Min(S) == CHOOSE x \in S : \A y \in S : x <= y

\* A BTreeSet is written in ascending order.
RECURSIVE Ascending(_)
Ascending(S) ==
    IF S = {} THEN <<>> ELSE <<Min(S)>> \o Ascending(S \ {Min(S)})

\* A Hash is written as its bytes (a digest is self-delimiting, see Sha3_256).
SerHash(h) == h.bytes

\* Option<Hash>: a tag, then the value.
SerOption(o) == IF o = None THEN <<0>> ELSE <<1>> \o SerHash(o[1])

\* Action<N>: the variant index, then the payload (a set as length + items).
SerAction(a) ==
    CASE a.tag = "Init" -> <<0, Cardinality(a.members)>> \o Ascending(a.members)
      [] a.tag = "Add" -> <<1, a.node>>
      [] a.tag = "Remove" -> <<2, a.node>>

\* The node ids an event carries.
NodesOf(e) ==
    {e.creator_id} \cup (IF e.action.tag = "Init" THEN e.action.members
                         ELSE {e.action.node})

\* bincode::serialize(event): fields in declaration order; fails when a node
\* id's Serialize impl fails.
Serialize(e) ==
    IF NodesOf(e) \cap Unserializable # {}
    THEN [ok |-> FALSE, bytes |-> <<>>]
    ELSE [ok |-> TRUE,
          bytes |-> <<e.creator_id>> \o SerOption(e.self_parent)
                      \o SerOption(e.other_parent) \o SerAction(e.action)]

\* Sha3_256 (collision free: the digest identifies the bytes digested; it
\* starts with their number, which makes it self-delimiting).
Sha3_256(bytes) == <<Len(bytes)>> \o bytes

\* hash.rs: compute_hash
compute_hash(e) ==
    LET ser == Serialize(e)
    IN  IF ser.ok THEN [ok |-> TRUE, hash |-> Hash(Sha3_256(ser.bytes))]
        ELSE [ok |-> FALSE, hash |-> Hash(<<>>)]

----------------------------------------------------------------------------
\* The gossip graph (graph.rs). An EventRef is modelled by its index: the
\* event it borrows is events[index + 1], and stored events never change.

\* Graph::get_index
get_index(ix, h) == IF h \in DOMAIN ix THEN Some(ix[h]) ELSE None

\* Graph::contains
contains(ix, h) == h \in DOMAIN ix

\* Graph::get_by_index
get_by_index(ev, i) == IF i >= 0 /\ i < Len(ev) THEN Some(i) ELSE None

\* Graph::get_by_hash
get_by_hash(ev, ix, h) ==
    LET i == get_index(ix, h)
    IN  IF i = None THEN None ELSE get_by_index(ev, i[1])

\* Graph::insert taking the index after the push (events.len() read one
\* statement late): the map entry is one too high.
insert_index_after_push(ev, ix, e) ==
    LET r == compute_hash(e)
    IN  IF ~r.ok
        THEN [ok |-> FALSE, index |-> -1, events |-> ev, indices |-> ix]
        ELSE IF r.hash \in DOMAIN ix
        THEN [ok |-> TRUE, index |-> ix[r.hash], events |-> ev, indices |-> ix]
        ELSE [ok |-> TRUE, index |-> Len(ev) + 1, events |-> Append(ev, e),
              indices |-> (r.hash :> (Len(ev) + 1)) @@ ix]

\* Graph::insert pushing the event before it hashes it: a hashing error
\* leaves the event in the store.
insert_push_before_hash(ev, ix, e) ==
    LET r == compute_hash(e)
    IN  IF ~r.ok
        THEN [ok |-> FALSE, index |-> -1, events |-> Append(ev, e), indices |-> ix]
        ELSE IF r.hash \in DOMAIN ix
        THEN [ok |-> TRUE, index |-> ix[r.hash], events |-> ev, indices |-> ix]
        ELSE [ok |-> TRUE, index |-> Len(ev), events |-> Append(ev, e),
              indices |-> (r.hash :> Len(ev)) @@ ix]

\* Graph::insert putting a new event in front of the stored ones
\* (Vec::insert(0, ..) for Vec::push).
insert_at_front(ev, ix, e) ==
    LET r == compute_hash(e)
    IN  IF ~r.ok
        THEN [ok |-> FALSE, index |-> -1, events |-> ev, indices |-> ix]
        ELSE IF r.hash \in DOMAIN ix
        THEN [ok |-> TRUE, index |-> ix[r.hash], events |-> ev, indices |-> ix]
        ELSE [ok |-> TRUE, index |-> 0, events |-> <<e>> \o ev,
              indices |-> (r.hash :> 0) @@ ix]

\* Graph::insert with the Occupied arm lost: every event is appended.
insert_always_push(ev, ix, e) ==
    LET r == compute_hash(e)
    IN  IF ~r.ok
        THEN [ok |-> FALSE, index |-> -1, events |-> ev, indices |-> ix]
        ELSE [ok |-> TRUE, index |-> Len(ev), events |-> Append(ev, e),
              indices |-> (r.hash :> Len(ev)) @@ ix]

\* Graph::insert: the Result, and the graph after the call.
insert(ev, ix, e) ==
    LET r == compute_hash(e)
    IN  IF ~r.ok
        THEN [ok |-> FALSE, index |-> -1, events |-> ev, indices |-> ix]
        ELSE IF r.hash \in DOMAIN ix
        THEN [ok |-> TRUE, index |-> ix[r.hash], events |-> ev, indices |-> ix]
        ELSE [ok |-> TRUE, index |-> Len(ev), events |-> Append(ev, e),
              indices |-> (r.hash :> Len(ev)) @@ ix]

\* VecDeque::pop_back taken for VecDeque::back: the item is not removed.
pop_back_keeps_item(q) == [item |-> q[Len(q)], rest |-> q]

\* VecDeque::pop_back on a non-empty queue.
pop_back(q) == [item |-> q[Len(q)], rest |-> SubSeq(q, 1, Len(q) - 1)]

\* The add_parent closure with the lookup result dropped: nothing is queued.
add_parent_skips(ev, ix, q, parent) == q

\* The add_parent closure pushing to the back of the queue (push_back for
\* push_front): the traversal turns depth first.
add_parent_push_back(ev, ix, q, parent) ==
    IF parent = None THEN q
    ELSE LET p == get_by_hash(ev, ix, parent[1])
         IN  IF p = None THEN q ELSE Append(q, p[1])

\* The add_parent closure of AncestorIter::next: a parent that resolves is
\* pushed to the front, one that is absent or does not resolve is skipped.
add_parent(ev, ix, q, parent) ==
    IF parent = None THEN q
    ELSE LET p == get_by_hash(ev, ix, parent[1])
         IN  IF p = None THEN q ELSE <<p[1]>> \o q

----------------------------------------------------------------------------
\* The failure detector (failure_detector.rs).

\* Sequences over S of length at most n.
RECURSIVE SeqsUpTo(_, _)
SeqsUpTo(S, n) ==
    IF n <= 0 THEN {<<>>}
    ELSE LET shorter == SeqsUpTo(S, n - 1)
         IN  shorter \cup {Append(q, x) : q \in shorter, x \in S}

\* InternalFailureDetector::poll_failures with its TODO filled by Ok(()).
internal_poll_ok(q) == {[ok |-> TRUE, failures |-> q]}

\* InternalFailureDetector::poll_failures: always Err(Error::Poll), the queue
\* is not touched.
internal_poll_failures(q) == {[ok |-> FALSE, failures |-> q]}

\* FailureDetector::poll_failures of any other implementation of the trait:
\* it appends the failures it finds to the queue, and succeeds or fails.
trait_poll_failures(q) ==
    {[ok |-> b, failures |-> q \o found] :
        b \in BOOLEAN, found \in SeqsUpTo(Nodes, MaxFailures - Len(q))}

\* The dynamic dispatch of Box<dyn FailureDetector<N>>.
poll_failures(det, q) ==
    IF det = "internal" THEN internal_poll_failures(q) ELSE trait_poll_failures(q)

\* dequeue_failures returning a copy of the queue (clone for drain): the
\* queue keeps its failures.
dequeue_keeps_queue(q) == [drained |-> q, failures |-> q]

\* FailureDetector::dequeue_failures: self.failures.drain(..).collect()
dequeue_failures(q) == [drained |-> q, failures |-> <<>>]

----------------------------------------------------------------------------
\* The membership state machine (node_membership.rs).

\* enum Message<N>
MessageEvent(e) == [tag |-> "Event", event |-> e]

\* NodeMembership::poll with the error of poll_failures ignored (the `?`
\* lost): the queue is drained and Ok returned whatever the detector said.
poll_ignores_error(pf, ev, ix) ==
    LET d == dequeue_failures(pf.failures)
    IN  [ok |-> TRUE, err |-> "", msgs |-> <<>>, dequeued |-> TRUE,
         drained |-> d.drained, failures |-> d.failures,
         events |-> ev, indices |-> ix]

\* NodeMembership::poll gossiping a local event on every successful poll,
\* failures or not.
poll_always_gossips(pf, ev, ix) ==
    IF ~pf.ok
    THEN [ok |-> FALSE, err |-> "FailureDetector(Poll)", msgs |-> <<>>,
          dequeued |-> FALSE, drained |-> <<>>, failures |-> pf.failures,
          events |-> ev, indices |-> ix]
    ELSE LET d == dequeue_failures(pf.failures)
             e == Event(1, None, None, ActAdd(1))
             r == insert(ev, ix, e)
         IN  [ok |-> TRUE, err |-> "", msgs |-> <<MessageEvent(e)>>,
              dequeued |-> TRUE, drained |-> d.drained, failures |-> d.failures,
              events |-> r.events, indices |-> r.indices]

\* NodeMembership::poll, given the outcome pf of poll_failures: the Result,
\* and the failure queue and the graph after the call.
poll(pf, ev, ix) ==
    IF ~pf.ok
    THEN [ok |-> FALSE, err |-> "FailureDetector(Poll)", msgs |-> <<>>,
          dequeued |-> FALSE, drained |-> <<>>, failures |-> pf.failures,
          events |-> ev, indices |-> ix]
    ELSE LET d == dequeue_failures(pf.failures)
         IN  [ok |-> TRUE, err |-> "", msgs |-> <<>>, dequeued |-> TRUE,
              drained |-> d.drained, failures |-> d.failures,
              events |-> ev, indices |-> ix]

\* NodeMembership::handle_message: the message is not looked at.
handle_message(msg, ev, ix) ==
    [ok |-> TRUE, err |-> "", msgs |-> <<>>, events |-> ev, indices |-> ix]

\* NodeMembership::group answering from the failure detector's queue.
group_reads_failures(ev, ix) == failures

\* NodeMembership::group
group(ev, ix) == <<>>

\* Whether a parent field of e names an event the graph does not hold.
Dangling(ix, e) ==
    \/ e.self_parent # None /\ ~contains(ix, e.self_parent[1])
    \/ e.other_parent # None /\ ~contains(ix, e.other_parent[1])

----------------------------------------------------------------------------
\* History record of the last call: the operation and its argument, the
\* Result it returned, and what the call saw on its way.
Blank ==
    [op |-> "new", ok |-> TRUE, err |-> "", arg |-> None, index |-> -1,
     before |-> 0, again |-> FALSE, prevIndex |-> -1,
     msgs |-> <<>>, pfOk |-> TRUE, pending |-> <<>>, dequeued |-> FALSE,
     drained |-> <<>>, group |-> <<>>, dangling |-> FALSE,
     hash |-> None, has |-> FALSE, found |-> None]

\* Before the first call of group.
NoGroup == [called |-> FALSE, events |-> <<>>, failures |-> <<>>, result |-> <<>>]

\* A traversal yields at most one item per path from its start, and a graph
\* of n events has fewer than 2^n paths from any event.
MaxYield == 2 ^ MaxEvents - 1

\* Inputs: the events a caller may hand to insert. The genesis event is a
\* root; the other events name any parents.
Genesis == Event(1, None, None, ActInit(Nodes))
Unhashable == Event(0, None, None, ActAdd(1))

\* Hashes a parent field may hold: a self-parent is a stored event, an
\* other-parent a stored event or an event that is not (or not yet) stored.
SelfParentInputs == {None} \cup {Some(h) : h \in DOMAIN indices}
OtherParentInputs == SelfParentInputs \cup {Some(compute_hash(Genesis).hash)}

EventInputs ==
    {Genesis, Unhashable}
    \cup {Event(2, sp, op, ActRemove(1)) : sp \in SelfParentInputs, op \in OtherParentInputs}

Init ==
    /\ events = <<>>
    /\ indices = <<>>
    /\ failures = <<>>
    /\ detector = "internal"
    /\ itState = "idle"
    /\ start = -1
    /\ queue = <<>>
    /\ yielded = <<>>
    /\ last = Blank
    /\ lastGroup = NoGroup

\* A call of Graph::insert. The graph is not borrowed by a live iterator.
Insert(e) ==
    /\ itState # "active"
    /\ LET r == insert(events, indices, e)
       IN  /\ Len(r.events) <= MaxEvents
           /\ events' = r.events
           /\ indices' = r.indices
           /\ last' = [Blank EXCEPT !.op = "insert", !.ok = r.ok,
                          !.err = IF r.ok THEN "" ELSE "Hash",
                          !.arg = Some(e), !.index = r.index,
                          !.before = Len(events),
                          !.again = (last.op = "insert" /\ last.ok /\ last.arg = Some(e)),
                          !.prevIndex = IF last.op = "insert" /\ last.ok /\ last.arg = Some(e)
                                        THEN last.index ELSE -1]
    /\ itState' = "idle" /\ start' = -1 /\ queue' = <<>> /\ yielded' = <<>>
    /\ UNCHANGED <<failures, detector, lastGroup>>

\* A call of Graph::ancestors on the EventRef of stored event i.
Ancestors(i) ==
    /\ itState # "active"
    /\ get_by_index(events, i) # None
    /\ itState' = "active"
    /\ start' = i
    /\ queue' = <<i>>
    /\ yielded' = <<>>
    /\ last' = [Blank EXCEPT !.op = "ancestors", !.index = i, !.before = Len(events)]
    /\ UNCHANGED <<events, indices, failures, detector, lastGroup>>

\* A call of AncestorIter::next.
AncestorNext ==
    /\ itState = "active"
    /\ IF queue = <<>>
       THEN /\ itState' = "done"
            /\ UNCHANGED <<queue, yielded>>
       ELSE /\ Len(yielded) < MaxYield
            /\ LET p == pop_back(queue)
                   ev == events[p.item + 1]
                   q1 == add_parent(events, indices, p.rest, ev.other_parent)
                   q2 == add_parent(events, indices, q1, ev.self_parent)
               IN  /\ queue' = q2
                   /\ yielded' = Append(yielded, p.item)
            /\ UNCHANGED itState
    /\ UNCHANGED <<events, indices, failures, detector, start, last, lastGroup>>

\* A call of NodeMembership::poll.
Poll ==
    /\ itState # "active"
    /\ \E pf \in poll_failures(detector, failures) :
         LET r == poll(pf, events, indices)
         IN  /\ failures' = r.failures
             /\ events' = r.events
             /\ indices' = r.indices
             /\ last' = [Blank EXCEPT !.op = "poll", !.ok = r.ok, !.err = r.err,
                            !.msgs = r.msgs, !.before = Len(events),
                            !.pfOk = pf.ok, !.pending = pf.failures,
                            !.dequeued = r.dequeued, !.drained = r.drained,
                            !.again = (last.op = "poll" /\ last.ok /\ last.drained = <<>>)]
    /\ itState' = "idle" /\ start' = -1 /\ queue' = <<>> /\ yielded' = <<>>
    /\ UNCHANGED <<detector, lastGroup>>

\* A call of NodeMembership::handle_message with Message::Event(e).
HandleMessage(e) ==
    /\ itState # "active"
    /\ LET r == handle_message(MessageEvent(e), events, indices)
       IN  /\ events' = r.events
           /\ indices' = r.indices
           /\ last' = [Blank EXCEPT !.op = "handle_message", !.ok = r.ok,
                          !.err = r.err, !.arg = Some(e), !.msgs = r.msgs,
                          !.before = Len(events),
                          !.dangling = Dangling(indices, e)]
    /\ itState' = "idle" /\ start' = -1 /\ queue' = <<>> /\ yielded' = <<>>
    /\ UNCHANGED <<failures, detector, lastGroup>>

\* A call of NodeMembership::group.
Group ==
    /\ itState # "active"
    /\ last' = [Blank EXCEPT !.op = "group", !.group = group(events, indices),
                   !.before = Len(events),
                   !.again = (/\ lastGroup.called
                              /\ lastGroup.events = events
                              /\ lastGroup.failures # failures)]
    /\ lastGroup' = [called |-> TRUE, events |-> events, failures |-> failures,
                     result |-> group(events, indices)]
    /\ itState' = "idle" /\ start' = -1 /\ queue' = <<>> /\ yielded' = <<>>
    /\ UNCHANGED <<events, indices, failures, detector>>

Next ==
    \/ \E e \in EventInputs : Insert(e)
    \/ \E i \in 0..(MaxEvents - 1) : Ancestors(i)
    \/ AncestorNext

Spec == Init /\ [][Next]_vars

\* The caller of an iterator keeps calling next until it returns None.
LiveSpec == Spec /\ WF_vars(AncestorNext)

----------------------------------------------------------------------------
\* The membership state machine over its graph and its failure detector.

\* The events a graph is seeded with, and the events a peer may send.
SeedInputs == {Genesis, Event(2, None, None, ActRemove(1))}

MessageInputs ==
    SeedInputs \cup {Unhashable}
    \cup {Event(2, sp, op, ActRemove(1)) :
            sp \in OtherParentInputs, op \in OtherParentInputs}

\* NodeMembership::new installs the InternalFailureDetector; the field holds
\* any implementation of the trait.
NodeInit ==
    /\ events = <<>>
    /\ indices = <<>>
    /\ failures = <<>>
    /\ detector \in {"internal", "trait"}
    /\ itState = "idle"
    /\ start = -1
    /\ queue = <<>>
    /\ yielded = <<>>
    /\ last = Blank
    /\ lastGroup = NoGroup

NodeNext ==
    \/ Poll
    \/ \E e \in MessageInputs : HandleMessage(e)
    \/ Group
    \/ \E e \in SeedInputs : Insert(e)

NodeSpec == NodeInit /\ [][NodeNext]_vars

----------------------------------------------------------------------------
\* All operations together: the membership state machine, the lookups and the
\* traversals of its graph (NodeMembership::graph hands out &Graph).

\* A call of Graph::contains, Graph::get_index and Graph::get_by_hash.
Lookup(h) ==
    /\ itState # "active"
    /\ last' = [Blank EXCEPT !.op = "lookup", !.hash = Some(h),
                   !.has = contains(indices, h),
                   !.index = IF get_index(indices, h) = None THEN -1
                             ELSE get_index(indices, h)[1],
                   !.found = get_by_hash(events, indices, h),
                   !.before = Len(events)]
    /\ itState' = "idle" /\ start' = -1 /\ queue' = <<>> /\ yielded' = <<>>
    /\ UNCHANGED <<events, indices, failures, detector, lastGroup>>

\* The hashes a caller may look up: of the events a graph is seeded with.
HashInputs == {compute_hash(e).hash : e \in SeedInputs}

FullNext ==
    \/ NodeNext
    \/ \E h \in HashInputs : Lookup(h)
    \/ \E i \in 0..(MaxEvents - 1) : Ancestors(i)
    \/ AncestorNext

FullSpec == NodeInit /\ [][FullNext]_vars

----------------------------------------------------------------------------
\* Helpers of the properties. They read the parent links off the stored
\* events themselves, not off Graph.indices.

Range(q) == {q[i] : i \in DOMAIN q}

StoredIndices == 0..(Len(events) - 1)

ParentHashes(i) ==
    Range(events[i + 1].self_parent) \cup Range(events[i + 1].other_parent)

\* The stored events a parent link of stored event i leads to.
ParentsOf(i) ==
    {j \in StoredIndices : compute_hash(events[j + 1]).hash \in ParentHashes(i)}

RECURSIVE Closure(_)
Closure(S) ==
    LET T == S \cup UNION {ParentsOf(i) : i \in S}
    IN  IF T = S THEN S ELSE Closure(T)

\* Stored event i together with everything reachable from it.
Reachable(i) == Closure({i})

\* Every parent named by i or by an event reachable from i is stored.
AllParentsPresent(i) ==
    \A j \in Reachable(i) : \A h \in ParentHashes(j) :
        \E k \in StoredIndices : compute_hash(events[k + 1]).hash = h

----------------------------------------------------------------------------
\* C1. Graph.insert is idempotent: an insert that directly follows a
\* successful insert of an event with the same content leaves the number of
\* stored events as it was and returns the index the first insert returned.
IdempotentInsert ==
    (last.op = "insert" /\ last.again) =>
        (last.ok /\ Len(events) = last.before /\ last.index = last.prevIndex)

\* An event was inserted after another one, and then inserted again.
IdempotentInsertWitness ==
    last.op = "insert" /\ last.again /\ last.index = 1 /\ Len(events) = 2

\* C2. Ancestor completeness: once a traversal from E is exhausted, and all
\* transitive parents of E are stored, the set of yielded events is E
\* together with every event reachable from E over parent links.
AncestorCompleteness ==
    (itState = "done" /\ AllParentsPresent(start)) =>
        Range(yielded) = Reachable(start)

\* A traversal was exhausted over an event with a parent and a grandparent,
\* all stored, one of them stored after its child.
AncestorCompletenessWitness ==
    /\ itState = "done"
    /\ AllParentsPresent(start)
    /\ Cardinality(Reachable(start)) = 3
    /\ \E j \in Reachable(start) : j > start

\* C3. A traversal yields no event twice.
NoDuplicateYield ==
    \A i, j \in DOMAIN yielded : i # j => yielded[i] # yielded[j]

\* C4. Ancestor traversal terminates: a traversal that is under way is
\* eventually exhausted (next returns None).
AncestorsTerminate == (itState = "active") ~> (itState = "done")

\* A traversal that yielded at least three events was exhausted.
AncestorsTerminateWitness == itState = "done" /\ Len(yielded) >= 3

\* C5. handle_message inserts the carried event: after a successful call
\* the graph contains an event with the hash of the carried event.
HandleMessageInserts ==
    (last.op = "handle_message" /\ last.ok /\ compute_hash(last.arg[1]).ok) =>
        contains(indices, compute_hash(last.arg[1]).hash)

\* C6. poll turns detected failures into gossip: a poll that drained k >= 1
\* failures returns k messages and has grown the graph by k events.
PollGossipsFailures ==
    (last.op = "poll" /\ last.pfOk /\ Len(last.drained) >= 1) =>
        /\ last.ok
        /\ Len(last.msgs) = Len(last.drained)
        /\ Len(events) = last.before + Len(last.drained)

\* C7. Poll idempotence under no failures: a poll whose poll_failures
\* succeeds and leaves the failure queue empty returns an empty message
\* sequence and leaves the graph as it was.
PollNoFailuresIsNoop ==
    [][(last'.op = "poll" /\ last'.pfOk /\ last'.pending = <<>>) =>
        (last'.ok /\ last'.msgs = <<>> /\ events' = events /\ indices' = indices)]_vars

\* Two such polls in succession, on a graph that holds events.
PollNoFailuresIsNoopWitness ==
    /\ last.op = "poll" /\ last.pfOk /\ last.pending = <<>> /\ last.again
    /\ Len(events) >= 1

\* C8. poll propagates failure-detector errors: when poll_failures fails,
\* poll returns Error::FailureDetector wrapping it, does not drain the
\* failure queue and leaves the graph as it was.
PollPropagatesError ==
    [][(last'.op = "poll" /\ ~last'.pfOk) =>
        /\ ~last'.ok
        /\ last'.err = "FailureDetector(Poll)"
        /\ ~last'.dequeued
        /\ failures' = last'.pending
        /\ events' = events
        /\ indices' = indices]_vars

\* poll failed with failures waiting in the queue and events in the graph.
PollPropagatesErrorWitness ==
    /\ last.op = "poll" /\ ~last.pfOk /\ ~last.ok
    /\ failures # <<>>
    /\ Len(events) >= 1

\* C9. Genesis projection: on a graph that holds exactly one event, a
\* genesis event with member set S, group returns exactly the members of S.
GenesisProjection ==
    (last.op = "group" /\ Len(events) = 1 /\ events[1].action.tag = "Init") =>
        Range(last.group) = events[1].action.members

\* C10. Rejection of dangling references: handle_message of an event with a
\* parent hash the graph does not hold returns an error, and the number of
\* stored events is as before the call.
RejectsDanglingParent ==
    (last.op = "handle_message" /\ last.dangling) =>
        (~last.ok /\ Len(events) = last.before)

\* C11. group is a pure read: a call of group changes neither the graph nor
\* the failure detector, does not fail, and returns what the previous call
\* of group returned if the graph held the same events then, whatever the
\* failure queue held and whatever was called in between.
GroupIsPureRead ==
    [][(last'.op = "group") =>
        /\ events' = events /\ indices' = indices
        /\ failures' = failures /\ detector' = detector
        /\ last'.ok
        /\ (lastGroup.called /\ lastGroup.events = events) =>
              last'.group = lastGroup.result]_vars

\* group was called twice on the same non-empty graph, with different
\* failure queues.
GroupIsPureReadWitness ==
    last.op = "group" /\ last.again /\ Len(events) >= 1

\* The stored event a parent field leads to, if any (read off the events).
Resolve(o) ==
    IF o = None THEN <<>>
    ELSE LET S == {j \in StoredIndices : compute_hash(events[j + 1]).hash = o[1]}
         IN  IF S = {} THEN <<>> ELSE <<CHOOSE j \in S : TRUE>>

\* The parents of stored event i: the other-parent, then the self-parent.
ParentsInOrder(i) ==
    Resolve(events[i + 1].other_parent) \o Resolve(events[i + 1].self_parent)

\* The parents of the events of one level, in the order of that level.
RECURSIVE NextLevel(_)
NextLevel(level) ==
    IF level = <<>> THEN <<>>
    ELSE ParentsInOrder(Head(level)) \o NextLevel(Tail(level))

\* The levels from `level` on, one after the other.
RECURSIVE BreadthFirst(_)
BreadthFirst(level) ==
    IF level = <<>> THEN <<>> ELSE level \o BreadthFirst(NextLevel(level))

IsPrefix(p, q) == Len(p) <= Len(q) /\ SubSeq(q, 1, Len(p)) = p

\* C12. Traversal order: a traversal yields its start event, then level by
\* level the parents of the events of the level before, the other-parent of
\* an event before its self-parent.
BreadthFirstOrder ==
    /\ itState = "active" => IsPrefix(yielded, BreadthFirst(<<start>>))
    /\ itState = "done" => yielded = BreadthFirst(<<start>>)

\* An exhausted traversal from an event with two different parents, one of
\* which has a parent itself.
BreadthFirstOrderWitness ==
    /\ itState = "done"
    /\ Len(yielded) >= 4
    /\ events[start + 1].other_parent # events[start + 1].self_parent
    /\ Len(ParentsInOrder(start)) = 2

\* C13. Traversal over a dangling parent fails fast: once a traversal has
\* come to an event with a parent hash that no stored event has, it reports
\* a failure (it neither goes on yielding nor ends as if nothing was wrong).
DanglingParentFailsFast ==
    (\E k \in DOMAIN yielded : Dangling(indices, events[yielded[k] + 1])) =>
        itState = "failed"

\* C14. Parent resolvability: every parent hash of a stored event is the
\* hash of an event stored at a smaller index.
ParentsResolvable ==
    \A i \in StoredIndices : \A h \in ParentHashes(i) :
        \E j \in StoredIndices : j < i /\ compute_hash(events[j + 1]).hash = h

\* C15. The graph only grows: no step of any operation lowers the number of
\* stored events, and an event stored at index i stays at index i with the
\* same content, for get_by_index as for get_by_hash of its hash.
GraphOnlyGrows ==
    [][/\ Len(events') >= Len(events)
       /\ \A i \in StoredIndices :
            /\ events'[i + 1] = events[i + 1]
            /\ get_by_index(events', i) = get_by_index(events, i)
       /\ \A h \in DOMAIN indices :
            get_by_hash(events', indices', h) = get_by_hash(events, indices, h)]_vars

\* Two events are stored, group was called, the failure detector has left
\* failures in its queue, and a traversal was exhausted.
GraphOnlyGrowsWitness ==
    /\ Len(events) >= 2
    /\ lastGroup.called
    /\ failures # <<>>
    /\ itState = "done"

\* C16. A failed insert is all-or-nothing: insert fails exactly when hashing
\* the event fails, and a failed insert leaves the event sequence and the
\* hash-to-index map as they were.
FailedInsertIsAtomic ==
    [][(last'.op = "insert") =>
        /\ ~last'.ok <=> ~compute_hash(last'.arg[1]).ok
        /\ ~last'.ok =>
              (events' = events /\ indices' = indices /\ last'.err = "Hash")]_vars

\* An insert failed on a graph that holds events.
FailedInsertIsAtomicWitness ==
    last.op = "insert" /\ ~last.ok /\ Len(events) >= 2

\* C17. dequeue_failures drains the queue: the call made by poll returns all
\* queued node ids in queue order and leaves the queue empty, and a call
\* that follows another with no failure queued in between returns none.
DequeueDrains ==
    [][(last'.op = "poll" /\ last'.dequeued) =>
        /\ last'.drained = last'.pending
        /\ failures' = <<>>
        /\ (last.op = "poll" /\ last.dequeued /\ last'.pending = failures) =>
              last'.drained = <<>>]_vars

\* Two failures, queued in descending order, were drained in that order.
DequeueDrainsWitness ==
    /\ last.op = "poll" /\ last.dequeued
    /\ Len(last.drained) = 2 /\ last.drained[1] > last.drained[2]
    /\ failures = <<>>

\* The hashes the lookups are compared on: of the stored events, of their
\* parents and of the genesis event, stored or not.
ProbeHashes ==
    DOMAIN indices \cup UNION {ParentHashes(i) : i \in StoredIndices}
                   \cup {compute_hash(Genesis).hash}

\* C18. Store/index consistency: the map has one entry per stored event,
\* every mapped index is below the number of stored events, the hash of the
\* event at index i maps to i, no two stored events have the same hash, and
\* so contains(h) holds exactly when get_by_hash(h) finds an event, which is
\* the one at get_index(h).
StoreIndexConsistent ==
    /\ Cardinality(DOMAIN indices) = Len(events)
    /\ \A h \in DOMAIN indices : indices[h] \in StoredIndices
    /\ \A i \in StoredIndices :
         /\ compute_hash(events[i + 1]).ok
         /\ get_index(indices, compute_hash(events[i + 1]).hash) = Some(i)
    /\ \A i, j \in StoredIndices :
         i # j => compute_hash(events[i + 1]).hash # compute_hash(events[j + 1]).hash
    /\ \A h \in ProbeHashes :
         /\ contains(indices, h) <=> get_by_hash(events, indices, h) # None
         /\ get_by_hash(events, indices, h) = get_index(indices, h)

\* Three events are stored, one of them was just handed to insert again,
\* and one of them names a parent that is not stored.
StoreIndexConsistentWitness ==
    /\ Len(events) >= 3
    /\ last.op = "insert" /\ last.ok /\ last.before = Len(events)
    /\ \E h \in ProbeHashes : ~contains(indices, h)

\* C19. With the InternalFailureDetector that NodeMembership::new installs,
\* every poll returns Error::FailureDetector(Poll): it returns no messages,
\* does not drain the failure queue and leaves the graph as it was.
InternalDetectorPollFails ==
    [][(last'.op = "poll" /\ detector = "internal") =>
        /\ ~last'.ok
        /\ last'.err = "FailureDetector(Poll)"
        /\ last'.msgs = <<>>
        /\ ~last'.dequeued
        /\ failures' = failures
        /\ events' = events
        /\ indices' = indices]_vars

\* poll was called on such a NodeMembership after group had been called and
\* with events in the graph.
InternalDetectorPollFailsWitness ==
    /\ last.op = "poll" /\ detector = "internal"
    /\ lastGroup.called
    /\ Len(events) >= 1

====
